---- MODULE Spec2Model ----
(***************************************************************************)
(* Model of scripts/prototyping/battery-watch.py: the polling loop of     *)
(* main() and the SIGINT handler show_histogram().                         *)
(*                                                                         *)
(* Units.  The script computes with Python ints and floats; the model      *)
(* keeps every quantity as an integer in a fixed unit:                     *)
(*   charge, delta             micro-amp-hours (as read)                   *)
(*   clock, now, dt_ms         milliseconds                                *)
(*   voltage                   millivolts (the file holds microvolts)      *)
(*   rapl, rapl_delta_uj       microjoules (as read)                       *)
(*   avg_w, rapl_avg_w, power deltas     milliwatts, floored               *)
(* so DELTA_BUCKET_W, 0.5 W in the script, is 500 here.                    *)
(*                                                                         *)
(* The handler is a Python-level signal handler: the interpreter calls it  *)
(* between two bytecodes of the main thread, so the loop body is split     *)
(* into one action per statement that changes what the handler can see.    *)
(***************************************************************************)
EXTENDS Integers, Sequences, FiniteSets, TLC

\* ------------------------------------------------------------ constants
HIST_BUCKET_MS == 100
AVG_WINDOW == 30
DELTA_BUCKET_W == 500
\* POLL_S, in milliseconds
POLL_MS == 1

\* ------------------------------------------------------------ bounds
\* change events after which the model stops polling
MaxEvents == 32
\* polls of one run that may deviate from the steady discharge
MaxVar == 1
\* longest drawn histories of SpecHist
MaxIntervals == 2
MaxDeltas == 3

\* ------------------------------------------------------------ environment
\* first reading of charge_now
InitCharge == 50
\* voltage_now, constant during a run
VoltageNow == 12000
\* energy_uj advances this much per millisecond
RaplPerMs == 43000

RaplAt(t) == RaplPerMs * t

VARIABLES
    pc,             \* position of the main thread
    clock,          \* time.monotonic(), ms
    var_left,       \* deviating polls still allowed
    reads,          \* every value read from charge_now by line 100, in order
    events,         \* the raw tuple of every detected change, in order
    prev_charge, prev_rapl, prev_time, sample_num,
    intervals, power_deltas, window,
    charge, now, dt_ms, delta, voltage, rapl, rapl_delta_uj,
    avg_w, rapl_avg_w,
    out,            \* what was printed after the header block
    exit_status     \* -1 while the process runs

vars == << pc, clock, var_left, reads, events,
           prev_charge, prev_rapl, prev_time, sample_num,
           intervals, power_deltas, window,
           charge, now, dt_ms, delta, voltage, rapl, rapl_delta_uj,
           avg_w, rapl_avg_w, out, exit_status >>

env == << clock, var_left, reads, events >>
prevs == << prev_charge, prev_rapl, prev_time >>
hists == << intervals, power_deltas, window >>
locals == << charge, now, dt_ms, delta, voltage, rapl, rapl_delta_uj >>
avgs == << avg_w, rapl_avg_w >>
term == << out, exit_status >>

\* ------------------------------------------------------------ helpers
Abs(x) == IF x < 0 THEN -x ELSE x

RECURSIVE SumSeq(_)
SumSeq(s) == IF s = << >> THEN 0 ELSE Head(s) + SumSeq(Tail(s))

RECURSIVE Insert(_, _)
Insert(x, s) ==
    IF s = << >> THEN << x >>
    ELSE IF x <= Head(s) THEN << x >> \o s
    ELSE << Head(s) >> \o Insert(x, Tail(s))

RECURSIVE Sorted(_)
Sorted(s) == IF s = << >> THEN << >> ELSE Insert(Head(s), Sorted(Tail(s)))

\* ------------------------------------------------------------ main loop
LoopPcs == { "sleep", "read", "l104", "l115", "l116", "l117", "l118",
             "l122", "l127", "l130", "l136" }

Init ==
    /\ pc = "sleep"
    /\ clock = 0
    /\ var_left = MaxVar
    /\ reads = << >>
    /\ events = << >>
    /\ prev_charge = InitCharge
    /\ prev_rapl = RaplAt(0)
    /\ prev_time = 0
    /\ sample_num = 0
    /\ intervals = << >>
    /\ power_deltas = << >>
    /\ window = << >>
    /\ charge = 0 /\ now = 0 /\ dt_ms = 0 /\ delta = 0
    /\ voltage = 0 /\ rapl = 0 /\ rapl_delta_uj = 0
    /\ avg_w = 0 /\ rapl_avg_w = 0
    /\ out = << >>
    /\ exit_status = -1

\* line 99: time.sleep(POLL_S)
Sleep ==
    /\ pc = "sleep"
    /\ sample_num < MaxEvents
    /\ clock' = clock + POLL_MS
    /\ pc' = "read"
    /\ UNCHANGED << var_left, reads, events, prevs, sample_num, hists,
                    locals, avgs, term >>

\* what charge_now may hold at a poll: one step of discharge, or, while
\* deviations are left, the unchanged value or one step of charge
ChargeReadings ==
    { prev_charge - 1 } \cup
    (IF var_left > 0 THEN { prev_charge, prev_charge + 1 } ELSE {})

\* ReadCharge with the comparison of line 101 weakened to >=
ReadCharge_ge ==
    /\ pc = "read"
    /\ \E c \in ChargeReadings :
        /\ charge' = c
        /\ reads' = Append(reads, c)
        /\ var_left' = IF c = prev_charge - 1 THEN var_left ELSE var_left - 1
        /\ pc' = IF c >= prev_charge THEN "sleep" ELSE "l104"
    /\ UNCHANGED << clock, events, prevs, sample_num, hists,
                    now, dt_ms, delta, voltage, rapl, rapl_delta_uj,
                    avgs, term >>

\* lines 100-102
ReadCharge ==
    /\ pc = "read"
    /\ \E c \in ChargeReadings :
        /\ charge' = c
        /\ reads' = Append(reads, c)
        /\ var_left' = IF c = prev_charge - 1 THEN var_left ELSE var_left - 1
        /\ pc' = IF c = prev_charge THEN "sleep" ELSE "l104"
    /\ UNCHANGED << clock, events, prevs, sample_num, hists,
                    now, dt_ms, delta, voltage, rapl, rapl_delta_uj,
                    avgs, term >>

\* lines 104-113 (rapl_w and power_w are only printed)
Measure ==
    /\ pc = "l104"
    /\ now' = clock
    /\ dt_ms' = clock - prev_time
    /\ delta' = charge - prev_charge
    /\ voltage' = VoltageNow
    /\ rapl' = RaplAt(clock)
    /\ rapl_delta_uj' = RaplAt(clock) - prev_rapl
    /\ events' = Append(events, << charge - prev_charge, clock - prev_time,
                                   VoltageNow, RaplAt(clock) - prev_rapl >>)
    /\ pc' = "l115"
    /\ UNCHANGED << clock, var_left, reads, prevs, sample_num, hists,
                    charge, avgs, term >>

\* line 115
IncSample ==
    /\ pc = "l115"
    /\ sample_num' = sample_num + 1
    /\ pc' = "l116"
    /\ UNCHANGED << env, prevs, hists, locals, avgs, term >>

\* line 116
AppendInterval ==
    /\ pc = "l116"
    /\ intervals' = Append(intervals, dt_ms)
    /\ pc' = "l117"
    /\ UNCHANGED << env, prevs, sample_num, power_deltas, window,
                    locals, avgs, term >>

\* line 117
AppendWindow ==
    /\ pc = "l117"
    /\ window' = Append(window, << delta, dt_ms, voltage, rapl_delta_uj >>)
    /\ pc' = "l118"
    /\ UNCHANGED << env, prevs, sample_num, intervals, power_deltas,
                    locals, avgs, term >>

\* EvictWindow dropping the newest entry instead of the oldest
EvictWindow_newest ==
    /\ pc = "l118"
    /\ window' = IF Len(window) > AVG_WINDOW
                 THEN SubSeq(window, 1, Len(window) - 1) ELSE window
    /\ pc' = "l122"
    /\ UNCHANGED << env, prevs, sample_num, intervals, power_deltas,
                    locals, avgs, term >>

\* EvictWindow with the test of line 118 as >=
EvictWindow_ge ==
    /\ pc = "l118"
    /\ window' = IF Len(window) >= AVG_WINDOW THEN Tail(window) ELSE window
    /\ pc' = "l122"
    /\ UNCHANGED << env, prevs, sample_num, intervals, power_deltas,
                    locals, avgs, term >>

\* lines 118-119
EvictWindow ==
    /\ pc = "l118"
    /\ window' = IF Len(window) > AVG_WINDOW THEN Tail(window) ELSE window
    /\ pc' = "l122"
    /\ UNCHANGED << env, prevs, sample_num, intervals, power_deltas,
                    locals, avgs, term >>

\* line 122, in tenths of mW*ms: d[uAh] * v[mV] * 3.6
RECURSIVE SumEnergy(_)
SumEnergy(w) ==
    IF w = << >> THEN 0 ELSE Head(w)[1] * Head(w)[3] * 36 + SumEnergy(Tail(w))

\* line 123
RECURSIVE SumDt(_)
SumDt(w) == IF w = << >> THEN 0 ELSE Head(w)[2] + SumDt(Tail(w))

\* the sum of line 125
RECURSIVE SumRapl(_)
SumRapl(w) == IF w = << >> THEN 0 ELSE Head(w)[4] + SumRapl(Tail(w))

\* line 124, mW
AvgW(w) == IF SumDt(w) > 0 THEN Abs(SumEnergy(w)) \div (10 * SumDt(w)) ELSE 0

\* line 125, mW: uJ / ms
RaplAvgW(w) == IF SumDt(w) > 0 THEN SumRapl(w) \div SumDt(w) ELSE 0

\* lines 122-125
Average ==
    /\ pc = "l122"
    /\ avg_w' = AvgW(window)
    /\ rapl_avg_w' = RaplAvgW(window)
    /\ pc' = "l127"
    /\ UNCHANGED << env, prevs, sample_num, hists, locals, term >>

\* AppendPowerDelta with the test of line 127 as >
AppendPowerDelta_gt ==
    /\ pc = "l127"
    /\ power_deltas' = IF sample_num > AVG_WINDOW
                       THEN Append(power_deltas, avg_w - rapl_avg_w)
                       ELSE power_deltas
    /\ pc' = "l130"
    /\ UNCHANGED << env, prevs, sample_num, intervals, window,
                    locals, avgs, term >>

\* AppendPowerDelta without the warm-up test of line 127
AppendPowerDelta_always ==
    /\ pc = "l127"
    /\ power_deltas' = Append(power_deltas, avg_w - rapl_avg_w)
    /\ pc' = "l130"
    /\ UNCHANGED << env, prevs, sample_num, intervals, window,
                    locals, avgs, term >>

\* lines 127-128
AppendPowerDelta ==
    /\ pc = "l127"
    /\ power_deltas' = IF sample_num >= AVG_WINDOW
                       THEN Append(power_deltas, avg_w - rapl_avg_w)
                       ELSE power_deltas
    /\ pc' = "l130"
    /\ UNCHANGED << env, prevs, sample_num, intervals, window,
                    locals, avgs, term >>

\* lines 130-134: one report line
ReportLine ==
    << "line", sample_num, dt_ms, charge, delta, voltage, avg_w, rapl_avg_w >>

PrintReport ==
    /\ pc = "l130"
    /\ out' = Append(out, ReportLine)
    /\ pc' = "l136"
    /\ UNCHANGED << env, prevs, sample_num, hists, locals, avgs, exit_status >>

\* lines 136-138
UpdatePrev ==
    /\ pc = "l136"
    /\ prev_charge' = charge
    /\ prev_rapl' = rapl
    /\ prev_time' = now
    /\ pc' = "sleep"
    /\ UNCHANGED << env, sample_num, hists, locals, avgs, term >>

\* ------------------------------------------------------------ handler
\* lines 51, 55: int(iv // HIST_BUCKET_MS) * HIST_BUCKET_MS; // is floor
\* division and int() of its integral result changes nothing
IntervalBucket(iv) == (iv \div HIST_BUCKET_MS) * HIST_BUCKET_MS

\* line 51, s sorted
IntervalLo(s) == IntervalBucket(s[1])

\* line 52
IntervalHi(s) == IntervalBucket(s[Len(s)]) + HIST_BUCKET_MS

\* lines 54-56: buckets.get(b, 0) after the counting loop
IntervalCount(b, ivs) ==
    Cardinality({ i \in 1..Len(ivs) : IntervalBucket(ivs[i]) = b })

\* lines 59-62: range(lo, hi + 1, HIST_BUCKET_MS); a row is its bucket
\* and its count (the bar is a function of the count and max_count)
RECURSIVE IntervalRowsFrom(_, _, _)
IntervalRowsFrom(b, hi, ivs) ==
    IF b < hi + 1
    THEN << << b, IntervalCount(b, ivs) >> >>
         \o IntervalRowsFrom(b + HIST_BUCKET_MS, hi, ivs)
    ELSE << >>

IntervalRows(ivs) ==
    IntervalRowsFrom(IntervalLo(Sorted(ivs)), IntervalHi(Sorted(ivs)), ivs)

\* lines 80-83
DeltaBucket(d) ==
    IF d < 0
    THEN -(((-d) \div DELTA_BUCKET_W) + 1) * DELTA_BUCKET_W
    ELSE (d \div DELTA_BUCKET_W) * DELTA_BUCKET_W

\* DeltaLo without lines 75-76
DeltaLo_line74(sd) == (sd[1] \div DELTA_BUCKET_W) * DELTA_BUCKET_W

\* lines 74-76, sd sorted
DeltaLo(sd) ==
    IF sd[1] < 0
    THEN -(((-sd[1]) \div DELTA_BUCKET_W) + 1) * DELTA_BUCKET_W
    ELSE (sd[1] \div DELTA_BUCKET_W) * DELTA_BUCKET_W

\* line 77
DeltaHi(sd) == ((sd[Len(sd)] \div DELTA_BUCKET_W) + 1) * DELTA_BUCKET_W

\* lines 79-84: dbuckets.get(b, 0) after the counting loop
DeltaCount(b, pds) ==
    Cardinality({ i \in 1..Len(pds) : DeltaBucket(pds[i]) = b })

\* lines 86-91: while b <= hi + DELTA_BUCKET_W / 2
RECURSIVE DeltaRowsFrom(_, _, _)
DeltaRowsFrom(b, hi, pds) ==
    IF b <= hi + DELTA_BUCKET_W \div 2
    THEN << << b, DeltaCount(b, pds) >> >>
         \o DeltaRowsFrom(b + DELTA_BUCKET_W, hi, pds)
    ELSE << >>

DeltaRows(pds) ==
    DeltaRowsFrom(DeltaLo(Sorted(pds)), DeltaHi(Sorted(pds)), pds)

\* lines 47-48 and 70-71: count, min, median, max and the sum the mean
\* is printed from
StatsOf(tag, xs) ==
    LET s == Sorted(xs)
        n == Len(s)
    IN  << tag, n, s[1], s[(n \div 2) + 1], s[n], SumSeq(s) >>

\* lines 44-63
IntervalReport(ivs) ==
    << StatsOf("istats", ivs), << "ihist", IntervalRows(ivs) >> >>

\* lines 66-92
DeltaReport(pds) ==
    << StatsOf("dstats", pds), << "dhist", DeltaRows(pds) >> >>

\* HistogramOutput without the sys.exit of line 43
HistogramOutput_noexit(ivs, pds) ==
    IF ivs = << >>
    THEN << << "none" >>, << "ihist", << >> >> >>
    ELSE IntervalReport(ivs)
         \o (IF pds # << >> THEN DeltaReport(pds) ELSE << >>)

\* lines 41-92: everything the handler prints
HistogramOutput(ivs, pds) ==
    IF ivs = << >>
    THEN << << "none" >> >>
    ELSE IntervalReport(ivs)
         \o (IF pds # << >> THEN DeltaReport(pds) ELSE << >>)

\* SIGINT arrives while the main thread is in the loop: the interpreter
\* calls show_histogram before the next bytecode of the loop
Interrupt ==
    /\ pc \in LoopPcs
    /\ pc' = "handler"
    /\ UNCHANGED << env, prevs, sample_num, hists, locals, avgs, term >>

\* show_histogram returning to the loop instead of leaving at line 94
show_histogram_return ==
    /\ pc = "handler"
    /\ out' = out \o HistogramOutput(intervals, power_deltas)
    /\ pc' = "sleep"
    /\ UNCHANGED << env, prevs, sample_num, hists, locals, avgs, exit_status >>

\* lines 40-94: the handler prints and leaves through sys.exit(0)
show_histogram ==
    /\ pc = "handler"
    /\ out' = out \o HistogramOutput(intervals, power_deltas)
    /\ exit_status' = 0
    /\ pc' = "exited"
    /\ UNCHANGED << env, prevs, sample_num, hists, locals, avgs >>

Next ==
    \/ Sleep
    \/ ReadCharge
    \/ Measure
    \/ IncSample
    \/ AppendInterval
    \/ AppendWindow
    \/ EvictWindow
    \/ Average
    \/ AppendPowerDelta
    \/ PrintReport
    \/ UpdatePrev
    \/ Interrupt
    \/ show_histogram

Spec == Init /\ [][Next]_vars

\* ------------------------------------------------------------ the handler alone
\* show_histogram reads intervals and power_deltas and nothing else; this
\* specification starts it on histories drawn from bounded sets, in the
\* lengths the loop leaves between two change events: a non-empty
\* power-delta history comes with AVG_WINDOW - 1 more intervals.  The
\* variables the handler does not read keep their values of the start.
IntervalVals == { 0, 99, 100, 350 }
DeltaVals == { -1000, -600, -500, -100, 0, 700 }

SeqsUpTo(S, lo, hi) == UNION { [1..n -> S] : n \in lo..hi }

\* the drawn intervals, the last one repeated up to the length that goes
\* with the power-delta history
HistIntervals(drawn, pds) ==
    IF pds = << >>
    THEN drawn
    ELSE [ i \in 1..(AVG_WINDOW - 1 + Len(pds)) |->
             drawn[IF i <= Len(drawn) THEN i ELSE Len(drawn)] ]

HistInit ==
    /\ pc = "handler"
    /\ power_deltas \in SeqsUpTo(DeltaVals, 0, MaxDeltas)
    /\ \E drawn \in SeqsUpTo(IntervalVals, 1, MaxIntervals) :
           intervals = HistIntervals(drawn, power_deltas)
    /\ sample_num = Len(intervals)
    /\ clock = 0
    /\ var_left = 0
    /\ reads = << >>
    /\ events = << >>
    /\ prev_charge = InitCharge
    /\ prev_rapl = RaplAt(0)
    /\ prev_time = 0
    /\ window = << >>
    /\ charge = 0 /\ now = 0 /\ dt_ms = 0 /\ delta = 0
    /\ voltage = 0 /\ rapl = 0 /\ rapl_delta_uj = 0
    /\ avg_w = 0 /\ rapl_avg_w = 0
    /\ out = << >>
    /\ exit_status = -1

HistNext == show_histogram

SpecHist == HistInit /\ [][HistNext]_vars

\* ------------------------------------------------------------ properties
IsLine(e) == e[1] = "line"
IsHandlerItem(e) == e[1] # "line"
Lines(o) == SelectSeq(o, IsLine)
HandlerOut(o) == SelectSeq(o, IsHandlerItem)
Max0(x) == IF x > 0 THEN x ELSE 0
IsPrefix(s, t) == Len(s) <= Len(t) /\ SubSeq(t, 1, Len(s)) = s
LastN(s, n) == IF Len(s) <= n THEN s ELSE SubSeq(s, Len(s) - n + 1, Len(s))
\* between two change events: nothing of an event is half done
BetweenEvents == { "sleep", "read", "l104" }

\* the readings that differ from the reading recorded before them
RECURSIVE ChangesFrom(_, _)
ChangesFrom(p, rs) ==
    IF rs = << >> THEN << >>
    ELSE IF Head(rs) # p
         THEN << Head(rs) >> \o ChangesFrom(Head(rs), Tail(rs))
         ELSE ChangesFrom(p, Tail(rs))

C1_Inv ==
    pc = "sleep" =>
        LET ch == ChangesFrom(InitCharge, reads)
            ls == Lines(out)
        IN  /\ sample_num = Len(ch)
            /\ Len(intervals) = Len(ch)
            /\ Len(ls) = Len(ch)
            /\ \A i \in 1..Len(ls) : ls[i][2] = i /\ ls[i][4] = ch[i]
            /\ prev_charge = IF ch = << >> THEN InitCharge ELSE ch[Len(ch)]

C1_Act ==
    (pc = "read" /\ reads' # reads) =>
        IF charge' = prev_charge
        THEN /\ pc' = "sleep"
             /\ UNCHANGED << prevs, sample_num, hists, avgs, term,
                             now, dt_ms, delta, voltage, rapl, rapl_delta_uj >>
        ELSE pc' = "l104"

\* C1: a poll records a change event (next sequence number, one more
\* interval, one report line) exactly when the value read differs from
\* prev_charge, which is the baseline and then the last recorded value; a
\* poll that reads the same value prints nothing and changes no state.
C1_ChangeIffDiffers == [] C1_Inv /\ [][C1_Act]_vars

C1_Witness ==
    /\ pc = "sleep"
    /\ sample_num >= 2
    /\ Len(reads) > sample_num

\* C2: after a completed change event the window holds at most AVG_WINDOW
\* tuples: the raw tuples of the last AVG_WINDOW events in arrival order, or
\* of all events while fewer have happened.
C2_WindowIsLastEvents ==
    pc = "sleep" =>
        /\ Len(window) <= AVG_WINDOW
        /\ Len(events) = sample_num
        /\ window = LastN(events, AVG_WINDOW)

C2_Witness ==
    /\ pc = "sleep"
    /\ sample_num = AVG_WINDOW + 2
    /\ \E i \in 1..Len(window) : window[i] # window[1]
    /\ window[1] # events[1]

C3_Inv ==
    pc \in BetweenEvents =>
        Len(power_deltas) = Max0(sample_num - AVG_WINDOW + 1)

C3_Act ==
    /\ power_deltas' # power_deltas =>
        /\ pc = "l127"
        /\ sample_num >= AVG_WINDOW
        /\ Len(window) = AVG_WINDOW
        /\ power_deltas' = Append(power_deltas, AvgW(window) - RaplAvgW(window))
    /\ (pc = "l127" /\ pc' = "l130" /\ sample_num >= AVG_WINDOW) =>
        Len(power_deltas') = Len(power_deltas) + 1
    /\ IsPrefix(intervals, intervals')
    /\ IsPrefix(power_deltas, power_deltas')

\* C3: a change event appends to the power-delta history exactly when
\* sample_num, already incremented, is at least AVG_WINDOW, and the window
\* then holds exactly AVG_WINDOW tuples; after k completed events the history
\* has max(0, k - AVG_WINDOW + 1) values; neither history ever shrinks.
C3_PowerDeltaHistory == [] C3_Inv /\ [][C3_Act]_vars

C3_Witness ==
    /\ pc = "sleep"
    /\ sample_num = AVG_WINDOW + 1
    /\ Len(power_deltas) = 2

C4_Act ==
    /\ pc = "handler" =>
        /\ pc' = "exited"
        /\ exit_status' = 0
        /\ Lines(out') = Lines(out)
        /\ UNCHANGED << reads, events, prevs, sample_num, hists >>
    /\ pc # "exited"
    /\ HandlerOut(out') # HandlerOut(out) =>
        (pc = "handler" /\ HandlerOut(out) = << >>)

\* C4: once the interrupt is delivered the handler runs to its end and the
\* process exits with status 0; the loop does not resume: no further poll,
\* change event or report line, and the report is printed once.
C4_HandlerExits ==
    /\ [][C4_Act]_vars
    /\ [] (pc = "exited" <=> exit_status = 0)
    /\ [] (exit_status \in { -1, 0 })

C4_Witness ==
    /\ pc = "exited"
    /\ exit_status = 0
    /\ sample_num >= 2
    /\ Len(Lines(out)) < sample_num

\* C5: interrupted with no interval recorded, the handler prints the
\* "No intervals recorded." message and nothing else, and the exit status
\* is 0.
C5_NoIntervals ==
    (pc = "exited" /\ intervals = << >>) =>
        /\ HandlerOut(out) = << << "none" >> >>
        /\ exit_status = 0

C5_Witness ==
    /\ pc = "exited"
    /\ intervals = << >>
    /\ Len(reads) >= 1

\* C6: interrupted with at least one and fewer than AVG_WINDOW recorded
\* intervals, wherever in the loop, the handler prints the interval
\* histogram and no power-delta histogram: the power-delta history is empty.
C6_OnlyIntervalHistogram ==
    (pc = "exited" /\ Len(intervals) >= 1 /\ Len(intervals) < AVG_WINDOW) =>
        LET h == HandlerOut(out)
        IN  /\ power_deltas = << >>
            /\ Len(h) = 2
            /\ h[1][1] = "istats"
            /\ h[2][1] = "ihist"

C6_Witness ==
    /\ pc = "exited"
    /\ Len(intervals) = AVG_WINDOW - 1
    /\ sample_num = AVG_WINDOW

\* the rows of the histogram printed under the given tag, << >> if none
RowsOf(tag) ==
    LET h == HandlerOut(out)
        is == { i \in 1..Len(h) : h[i][1] = tag }
    IN  IF is = {} THEN << >> ELSE h[CHOOSE i \in is : TRUE][2]

MinOf(xs) == CHOOSE x \in { xs[i] : i \in 1..Len(xs) } :
                 \A j \in 1..Len(xs) : x <= xs[j]
MaxOf(xs) == CHOOSE x \in { xs[i] : i \in 1..Len(xs) } :
                 \A j \in 1..Len(xs) : x >= xs[j]
FloorBucket(v, w) == (v \div w) * w

\* C7: the interval histogram has one row per bucket from the bucket of the
\* minimum interval to the bucket of the maximum interval, both included,
\* and no row outside that range.
C7_RowsSpanMinToMax ==
    (pc = "exited" /\ intervals # << >>) =>
        LET rows == RowsOf("ihist")
            first == FloorBucket(MinOf(intervals), HIST_BUCKET_MS)
            last == FloorBucket(MaxOf(intervals), HIST_BUCKET_MS)
        IN  /\ Len(rows) = (last - first) \div HIST_BUCKET_MS + 1
            /\ \A i \in 1..Len(rows) :
                   rows[i][1] = first + (i - 1) * HIST_BUCKET_MS
            /\ rows[Len(rows)][1] = last

\* C8: in the power-delta histogram a negative value is counted in the row
\* of its mathematical floor bucket floor(v / w) * w, multiples of w included.
C8_NegativeFloorBucket ==
    (pc = "exited" /\ power_deltas # << >>) =>
        \A i \in 1..Len(power_deltas) :
            power_deltas[i] < 0 =>
                /\ DeltaBucket(power_deltas[i])
                       = FloorBucket(power_deltas[i], DELTA_BUCKET_W)
                /\ \E r \in 1..Len(RowsOf("dhist")) :
                       /\ RowsOf("dhist")[r][1]
                              = FloorBucket(power_deltas[i], DELTA_BUCKET_W)
                       /\ RowsOf("dhist")[r][2] > 0

\* the rows have distinct labels and their counts add up to n
CountsPartition(rows, n) ==
    /\ \A i, j \in 1..Len(rows) : rows[i][1] = rows[j][1] => i = j
    /\ SumSeq([ i \in 1..Len(rows) |-> rows[i][2] ]) = n

\* C10: every recorded value is counted in exactly one printed row: its
\* bucket is the label of a row, the labels are distinct and the counts of
\* each histogram add up to the length of its history.
C10_EveryValueCountedOnce ==
    pc = "exited" =>
        /\ intervals # << >> =>
            /\ CountsPartition(RowsOf("ihist"), Len(intervals))
            /\ \A i \in 1..Len(intervals) :
                   \E r \in 1..Len(RowsOf("ihist")) :
                       RowsOf("ihist")[r][1] = IntervalBucket(intervals[i])
        /\ (intervals # << >> /\ power_deltas # << >>) =>
            /\ CountsPartition(RowsOf("dhist"), Len(power_deltas))
            /\ \A i \in 1..Len(power_deltas) :
                   \E r \in 1..Len(RowsOf("dhist")) :
                       RowsOf("dhist")[r][1] = DeltaBucket(power_deltas[i])

C10_Witness ==
    /\ pc = "exited"
    /\ Len(intervals) >= 2
    /\ IntervalBucket(MinOf(intervals)) + HIST_BUCKET_MS
           < IntervalBucket(MaxOf(intervals))
    /\ Len(power_deltas) >= 3
    /\ MinOf(power_deltas) = -DELTA_BUCKET_W
    /\ MaxOf(power_deltas) > 0
    /\ Len(RowsOf("dhist")) >= 4

\* what the handler can see at each point of the loop
C9_AtPc ==
    LET n == Len(intervals)
        l == Len(Lines(out))
        d == Len(power_deltas)
    IN  /\ pc \in BetweenEvents \cup { "l136" } =>
            /\ n = sample_num /\ l = sample_num
            /\ d = Max0(n - AVG_WINDOW + 1)
        /\ pc = "l115" =>
            /\ n = sample_num /\ l = sample_num
            /\ d = Max0(n - AVG_WINDOW + 1)
        /\ pc = "l116" =>
            /\ n = sample_num - 1 /\ l = sample_num - 1
            /\ d = Max0(n - AVG_WINDOW + 1)
        /\ pc \in { "l117", "l118", "l122", "l127" } =>
            /\ n = sample_num /\ l = sample_num - 1
            /\ d = Max0(n - AVG_WINDOW)
        /\ pc = "l130" =>
            /\ n = sample_num /\ l = sample_num - 1
            /\ d = Max0(n - AVG_WINDOW + 1)

\* C9 as claimed: at every point where the interrupt can enter the handler,
\* len(power_deltas) = max(0, len(intervals) - AVG_WINDOW + 1) and
\* len(intervals) = sample_num = number of report lines.
C9_ConsistentEverywhere ==
    pc \in LoopPcs \cup { "handler" } =>
        /\ Len(power_deltas) = Max0(Len(intervals) - AVG_WINDOW + 1)
        /\ Len(intervals) = sample_num
        /\ Len(Lines(out)) = sample_num

\* C9 amended: the three equalities hold between change events; inside one
\* the handler can see sample_num and len(intervals) one ahead of the report
\* lines and len(power_deltas) one short, so it can run with exactly
\* AVG_WINDOW intervals and no power delta, never with more.
C9_ConsistentBetweenEvents ==
    /\ C9_AtPc
    /\ pc \in LoopPcs \cup { "handler" } =>
        /\ Len(intervals) \in { sample_num - 1, sample_num }
        /\ Len(Lines(out)) \in { sample_num - 1, sample_num }
        /\ Len(Lines(out)) <= Len(intervals)
        /\ Len(power_deltas) \in { Max0(Len(intervals) - AVG_WINDOW),
                                   Max0(Len(intervals) - AVG_WINDOW + 1) }
        /\ power_deltas = << >> => Len(intervals) <= AVG_WINDOW

C9_Witness ==
    /\ pc = "handler"
    /\ Len(intervals) = AVG_WINDOW
    /\ power_deltas = << >>
====
